---- MODULE Spec2Model ----
(***************************************************************************)
(* The error types of src/result.rs: the three tiers CryptoError,          *)
(* DatabaseIntegrityError and Error, their Display renderings, their       *)
(* source() accessors and the From conversions between them.               *)
(*                                                                         *)
(* A text is a sequence of one-character strings, so that a rendering can  *)
(* be searched for a substring.  An Option<&dyn Error> is a sequence of    *)
(* length 0 (None) or 1 (Some).  A failure value of another crate is a     *)
(* record carrying its own Display text (disp) and Debug text (dbg): those *)
(* renderings are made outside this file and are inputs here.              *)
(***************************************************************************)
EXTENDS Integers, Sequences, FiniteSets, TLC

VARIABLES value, prev, shown, text, chain, ended

vars == <<value, prev, shown, text, chain, ended>>

(***************************************************************************)
(* Bounds of the input sets.                                               *)
(***************************************************************************)
\* integers 0..MaxNum are tried for every integer context field
MaxNum == 17
\* file_major_version ranges over 0..MaxMajor
MaxMajor == 4
\* file_minor_version ranges over 0..MaxMinor
MaxMinor == 1
\* byte vectors of every length up to MaxVecLen over SampleBytes are tried
MaxVecLen == 2
\* the length of the long identifiers tried for uuid and cid
CidLen == 16
\* the largest u8 (entry_type, value_type, the bytes of uuid and cid)
U8Max == 255

(***************************************************************************)
(* Rendering of integers: {} is decimal, {:0x} is lower-case hexadecimal   *)
(* (the 0 flag pads to the width, and no width is given).                  *)
(***************************************************************************)
Digits == <<"0", "1", "2", "3", "4", "5", "6", "7", "8", "9", "a", "b", "c", "d", "e", "f">>

RECURSIVE ToRadix(_, _)
ToRadix(n, r) ==
    IF n < r THEN <<Digits[n + 1]>>
    ELSE ToRadix(n \div r, r) \o <<Digits[(n % r) + 1]>>

FmtDisplayInt(n) == ToRadix(n, 10)

FmtLowerHexInt(n) == ToRadix(n, 16)

\* {:0x?} of a Vec<u8>: the Debug list, each byte in lower-case hexadecimal
RECURSIVE HexItems(_)
HexItems(v) ==
    IF Len(v) = 0 THEN <<>>
    ELSE IF Len(v) = 1 THEN FmtLowerHexInt(v[1])
    ELSE FmtLowerHexInt(v[1]) \o <<",", " ">> \o HexItems(Tail(v))

FmtLowerHexDebugVec(v) == <<"[">> \o HexItems(v) \o <<"]">>

(***************************************************************************)
(* Values.                                                                 *)
(***************************************************************************)
Ext(kind, disp, dbg) == [tier |-> "ext", kind |-> kind, disp |-> disp, dbg |-> dbg]

Argon2Errors ==
    { Ext("argon2::Error", <<"O", "u", "t", "p", "u", "t", " ", "i", "s", " ", "t", "o", "o", " ", "s", "h", "o", "r", "t">>, <<"O", "u", "t", "p", "u", "t", "T", "o", "o", "S", "h", "o", "r", "t">>),
      Ext("argon2::Error", <<"S", "a", "l", "t", " ", "i", "s", " ", "t", "o", "o", " ", "s", "h", "o", "r", "t">>, <<"S", "a", "l", "t", "T", "o", "o", "S", "h", "o", "r", "t">>) }

InvalidKeyLengths ==
    { Ext("hmac::crypto_mac::InvalidKeyLength", <<"i", "n", "v", "a", "l", "i", "d", " ", "k", "e", "y", " ", "l", "e", "n", "g", "t", "h">>, <<"I", "n", "v", "a", "l", "i", "d", "K", "e", "y", "L", "e", "n", "g", "t", "h">>) }

InvalidKeyIvLengths ==
    { Ext("block_modes::InvalidKeyIvLength", <<"I", "n", "v", "a", "l", "i", "d", "K", "e", "y", "I", "v", "L", "e", "n", "g", "t", "h">>, <<"I", "n", "v", "a", "l", "i", "d", "K", "e", "y", "I", "v", "L", "e", "n", "g", "t", "h">>) }

InvalidKeyNonceLengths ==
    { Ext("stream_cipher::InvalidKeyNonceLength", <<"L", "o", "o", "p", " ", "E", "r", "r", "o", "r">>, <<"I", "n", "v", "a", "l", "i", "d", "K", "e", "y", "N", "o", "n", "c", "e", "L", "e", "n", "g", "t", "h">>) }

BlockModeErrors ==
    { Ext("block_modes::BlockModeError", <<"B", "l", "o", "c", "k", "M", "o", "d", "e", "E", "r", "r", "o", "r">>, <<"B", "l", "o", "c", "k", "M", "o", "d", "e", "E", "r", "r", "o", "r">>) }

XmlErrors ==
    { Ext("xml::reader::Error", <<"1", ":", "1", " ", "U", "n", "e", "x", "p", "e", "c", "t", "e", "d", " ", "e", "n", "d", " ", "o", "f", " ", "s", "t", "r", "e", "a", "m">>, <<"E", "r", "r", "o", "r", " ", "{", " ", "p", "o", "s", ":", " ", "1", ":", "1", " ", "}">>),
      Ext("xml::reader::Error", <<"2", ":", "7", " ", "U", "n", "e", "x", "p", "e", "c", "t", "e", "d", " ", "t", "o", "k", "e", "n">>, <<"E", "r", "r", "o", "r", " ", "{", " ", "p", "o", "s", ":", " ", "2", ":", "7", " ", "}">>) }

Base64Errors ==
    { Ext("base64::DecodeError", <<"I", "n", "v", "a", "l", "i", "d", " ", "b", "y", "t", "e", " ", "6", "1", ",", " ", "o", "f", "f", "s", "e", "t", " ", "2", ".">>, <<"I", "n", "v", "a", "l", "i", "d", "B", "y", "t", "e", "(", "2", ",", " ", "6", "1", ")">>),
      Ext("base64::DecodeError", <<"E", "n", "c", "o", "d", "e", "d", " ", "t", "e", "x", "t", " ", "c", "a", "n", "n", "o", "t", " ", "h", "a", "v", "e", " ", "a", " ", "6", "-", "b", "i", "t", " ", "r", "e", "m", "a", "i", "n", "d", "e", "r", ".">>, <<"I", "n", "v", "a", "l", "i", "d", "L", "e", "n", "g", "t", "h">>) }

Utf8Errors ==
    { Ext("std::str::Utf8Error", <<"i", "n", "v", "a", "l", "i", "d", " ", "u", "t", "f", "-", "8", " ", "s", "e", "q", "u", "e", "n", "c", "e", " ", "o", "f", " ", "1", " ", "b", "y", "t", "e", "s", " ", "f", "r", "o", "m", " ", "i", "n", "d", "e", "x", " ", "0">>,
          <<"U", "t", "f", "8", "E", "r", "r", "o", "r", " ", "{", " ", "v", "a", "l", "i", "d", "_", "u", "p", "_", "t", "o", ":", " ", "0", ",", " ", "e", "r", "r", "o", "r", "_", "l", "e", "n", ":", " ", "S", "o", "m", "e", "(", "1", ")", " ", "}">>),
      Ext("std::str::Utf8Error", <<"i", "n", "c", "o", "m", "p", "l", "e", "t", "e", " ", "u", "t", "f", "-", "8", " ", "b", "y", "t", "e", " ", "s", "e", "q", "u", "e", "n", "c", "e", " ", "f", "r", "o", "m", " ", "i", "n", "d", "e", "x", " ", "3">>,
          <<"U", "t", "f", "8", "E", "r", "r", "o", "r", " ", "{", " ", "v", "a", "l", "i", "d", "_", "u", "p", "_", "t", "o", ":", " ", "3", ",", " ", "e", "r", "r", "o", "r", "_", "l", "e", "n", ":", " ", "N", "o", "n", "e", " ", "}">>) }

IoErrors ==
    { Ext("std::io::Error", <<"e", "n", "t", "i", "t", "y", " ", "n", "o", "t", " ", "f", "o", "u", "n", "d">>, <<"K", "i", "n", "d", "(", "N", "o", "t", "F", "o", "u", "n", "d", ")">>),
      Ext("std::io::Error", <<"u", "n", "e", "x", "p", "e", "c", "t", "e", "d", " ", "e", "n", "d", " ", "o", "f", " ", "f", "i", "l", "e">>, <<"K", "i", "n", "d", "(", "U", "n", "e", "x", "p", "e", "c", "t", "e", "d", "E", "o", "f", ")">>) }

CryptoErrors ==
    {[tier |-> "CryptoError", tag |-> "Argon2", e |-> x] : x \in Argon2Errors}
    \cup {[tier |-> "CryptoError", tag |-> "InvalidKeyLength", e |-> x] : x \in InvalidKeyLengths}
    \cup {[tier |-> "CryptoError", tag |-> "InvalidKeyIvLength", e |-> x] : x \in InvalidKeyIvLengths}
    \cup {[tier |-> "CryptoError", tag |-> "InvalidKeyNonceLength", e |-> x] :
             x \in InvalidKeyNonceLengths}
    \cup {[tier |-> "CryptoError", tag |-> "BlockMode", e |-> x] : x \in BlockModeErrors}

Nums == (0 .. MaxNum) \cup {U8Max}

SampleBytes == {0, 9, 10, 16, U8Max}

ByteVecs ==
    UNION {[1 .. n -> SampleBytes] : n \in 0 .. MaxVecLen}
    \cup {[i \in 1 .. CidLen |-> (a + (i - 1) * b) % (U8Max + 1)] : a \in {0, 49}, b \in {0, 1, 17}}

FieldNames == { <<"S">>, <<"$", "U", "U", "I", "D">>, <<"M", "a", "s", "t", "e", "r", " ", "S", "e", "e", "d">> }

DI(tag) == [tier |-> "DatabaseIntegrityError", tag |-> tag]

DatabaseIntegrityErrors ==
    {DI("Compression"), DI("HeaderHashMismatch"), DI("InvalidKDBXIdentifier")}
    \cup {[tier |-> "DatabaseIntegrityError", tag |-> "Crypto", e |-> c] : c \in CryptoErrors}
    \cup {[tier |-> "DatabaseIntegrityError", tag |-> "BlockHashMismatch", block_index |-> n] :
             n \in Nums}
    \cup {[tier |-> "DatabaseIntegrityError", tag |-> "InvalidKDBXVersion", version |-> n,
           file_major_version |-> a, file_minor_version |-> b] :
             n \in Nums, a \in 0 .. MaxMajor, b \in 0 .. MaxMinor}
    \cup {[tier |-> "DatabaseIntegrityError", tag |-> t, entry_type |-> n] :
             t \in {"InvalidOuterHeaderEntry", "InvalidInnerHeaderEntry"}, n \in Nums}
    \cup {[tier |-> "DatabaseIntegrityError", tag |-> t, missing_field |-> s] :
             t \in {"IncompleteOuterHeader", "IncompleteInnerHeader"}, s \in FieldNames}
    \cup {[tier |-> "DatabaseIntegrityError", tag |-> "InvalidKDFVersion", version |-> n] :
             n \in Nums}
    \cup {[tier |-> "DatabaseIntegrityError", tag |-> "InvalidKDFUUID", uuid |-> v] :
             v \in ByteVecs}
    \cup {[tier |-> "DatabaseIntegrityError", tag |-> t, key |-> s] :
             t \in {"MissingKDFParams", "MistypedKDFParam"}, s \in FieldNames}
    \cup {[tier |-> "DatabaseIntegrityError", tag |-> "InvalidOuterCipherID", cid |-> v] :
             v \in ByteVecs}
    \cup {[tier |-> "DatabaseIntegrityError", tag |-> t, cid |-> n] :
             t \in {"InvalidInnerCipherID", "InvalidCompressionSuite"}, n \in Nums}
    \cup {[tier |-> "DatabaseIntegrityError", tag |-> "InvalidVariantDictionaryVersion",
           version |-> n] : n \in Nums}
    \cup {[tier |-> "DatabaseIntegrityError", tag |-> "InvalidVariantDictionaryValueType",
           value_type |-> n] : n \in Nums}
    \cup {[tier |-> "DatabaseIntegrityError", tag |-> "XMLParsing", e |-> x] : x \in XmlErrors}
    \cup {[tier |-> "DatabaseIntegrityError", tag |-> "Base64", e |-> x] : x \in Base64Errors}
    \cup {[tier |-> "DatabaseIntegrityError", tag |-> "UTF8", e |-> x] : x \in Utf8Errors}

Errors ==
    {[tier |-> "Error", tag |-> "IO", e |-> x] : x \in IoErrors}
    \cup {[tier |-> "Error", tag |-> "DatabaseIntegrity", e |-> d] : d \in DatabaseIntegrityErrors}
    \cup {[tier |-> "Error", tag |-> "IncorrectKey"], [tier |-> "Error", tag |-> "InvalidKeyFile"]}

CryptoCauses ==
    Argon2Errors \cup InvalidKeyLengths \cup InvalidKeyIvLengths
    \cup InvalidKeyNonceLengths \cup BlockModeErrors

Externals == CryptoCauses \cup XmlErrors \cup Base64Errors \cup Utf8Errors \cup IoErrors

Values == Externals \cup CryptoErrors \cup DatabaseIntegrityErrors \cup Errors

(***************************************************************************)
(* #[derive(Debug)] of CryptoError: Variant { e: <Debug of e> }.           *)
(***************************************************************************)
VariantName(c) ==
    CASE c.tag = "Argon2" -> <<"A", "r", "g", "o", "n", "2">>
      [] c.tag = "InvalidKeyLength" -> <<"I", "n", "v", "a", "l", "i", "d", "K", "e", "y", "L", "e", "n", "g", "t", "h">>
      [] c.tag = "InvalidKeyIvLength" -> <<"I", "n", "v", "a", "l", "i", "d", "K", "e", "y", "I", "v", "L", "e", "n", "g", "t", "h">>
      [] c.tag = "InvalidKeyNonceLength" -> <<"I", "n", "v", "a", "l", "i", "d", "K", "e", "y", "N", "o", "n", "c", "e", "L", "e", "n", "g", "t", "h">>
      [] c.tag = "BlockMode" -> <<"B", "l", "o", "c", "k", "M", "o", "d", "e">>

Debug_CryptoError(c) == VariantName(c) \o <<" ", "{", " ", "e", ":", " ">> \o c.e.dbg \o <<" ", "}">>

(***************************************************************************)
(* impl Display                                                            *)
(***************************************************************************)
Display_CryptoError(c) ==
    <<"C", "r", "y", "p", "t", "o", " ", "E", "r", "r", "o", "r", ":", " ">> \o
    CASE c.tag = "Argon2" -> <<"P", "r", "o", "b", "l", "e", "m", " ", "d", "e", "r", "i", "v", "i", "n", "g", " ", "k", "e", "y", " ", "w", "i", "t", "h", " ", "A", "r", "g", "o", "n", "2", ":", " ">> \o c.e.disp
      [] c.tag = "InvalidKeyIvLength" -> <<"I", "n", "v", "a", "l", "i", "d", " ", "k", "e", "y", " ", "/", " ", "I", "V", " ", "l", "e", "n", "g", "t", "h", ":", " ">> \o c.e.disp
      [] c.tag = "InvalidKeyLength" -> <<"I", "n", "v", "a", "l", "i", "d", " ", "k", "e", "y", " ", "l", "e", "n", "g", "t", "h", ":", " ">> \o c.e.disp
      [] c.tag = "InvalidKeyNonceLength" -> <<"I", "n", "v", "a", "l", "i", "d", " ", "k", "e", "y", " ", "/", " ", "n", "o", "n", "c", "e", " ", "l", "e", "n", "g", "t", "h", ":", " ">> \o c.e.disp
      [] c.tag = "BlockMode" -> <<"B", "l", "o", "c", "k", " ", "m", "o", "d", "e", " ", "e", "r", "r", "o", "r", ":", " ">> \o c.e.disp

\* the match arms of Display for DatabaseIntegrityError that format a wrapped
\* CryptoError, a block index, the version numbers and an outer cipher identifier
Msg_Crypto(e) == <<"C", "r", "y", "p", "t", "o", "g", "r", "a", "p", "h", "y", " ", "e", "r", "r", "o", "r", ":", " ">> \o Debug_CryptoError(e)

\* variant: the block index formatted with {:x} instead of {}
Msg_BlockHashMismatch_hex(block_index) ==
    <<"E", "r", "r", "o", "r", " ", "w", "h", "e", "n", " ", "v", "e", "r", "i", "f", "y", "i", "n", "g", " ", "i", "n", "t", "e", "g", "r", "i", "t", "y", " ", "o", "f", " ", "b", "l", "o", "c", "k", " ">> \o FmtLowerHexInt(block_index)

Msg_BlockHashMismatch(block_index) ==
    <<"E", "r", "r", "o", "r", " ", "w", "h", "e", "n", " ", "v", "e", "r", "i", "f", "y", "i", "n", "g", " ", "i", "n", "t", "e", "g", "r", "i", "t", "y", " ", "o", "f", " ", "b", "l", "o", "c", "k", " ">> \o FmtDisplayInt(block_index)

\* variant: file_major_version passed twice to format!, file_minor_version never
Msg_InvalidKDBXVersion_majortwice(version, file_major_version, file_minor_version) ==
    <<"I", "n", "v", "a", "l", "i", "d", " ", "K", "D", "B", "X", " ", "V", "e", "r", "s", "i", "o", "n", " ", "(", "v", "e", "r", "s", "i", "o", "n", ":", " ">> \o FmtLowerHexInt(version)
    \o <<" ", "f", "i", "l", "e", " ", "v", "e", "r", "s", "i", "o", "n", " ">> \o FmtDisplayInt(file_major_version)
    \o <<".">> \o FmtDisplayInt(file_major_version) \o <<")">>

Msg_InvalidKDBXVersion(version, file_major_version, file_minor_version) ==
    <<"I", "n", "v", "a", "l", "i", "d", " ", "K", "D", "B", "X", " ", "V", "e", "r", "s", "i", "o", "n", " ", "(", "v", "e", "r", "s", "i", "o", "n", ":", " ">> \o FmtLowerHexInt(version)
    \o <<" ", "f", "i", "l", "e", " ", "v", "e", "r", "s", "i", "o", "n", " ">> \o FmtDisplayInt(file_major_version)
    \o <<".">> \o FmtDisplayInt(file_minor_version) \o <<")">>

\* variant: the identifier formatted with {:?} (decimal bytes) instead of {:0x?}
RECURSIVE DecimalItems(_)
DecimalItems(v) ==
    IF Len(v) = 0 THEN <<>>
    ELSE IF Len(v) = 1 THEN FmtDisplayInt(v[1])
    ELSE FmtDisplayInt(v[1]) \o <<",", " ">> \o DecimalItems(Tail(v))

Msg_InvalidOuterCipherID_decimal(cid) ==
    <<"E", "n", "c", "o", "u", "n", "t", "e", "r", "e", "d", " ", "a", "n", " ", "i", "n", "v", "a", "l", "i", "d", " ", "o", "u", "t", "e", "r", " ", "c", "i", "p", "h", "e", "r", " ", "I", "D", ":", " ">> \o <<"[">> \o DecimalItems(cid) \o <<"]">>

Msg_InvalidOuterCipherID(cid) ==
    <<"E", "n", "c", "o", "u", "n", "t", "e", "r", "e", "d", " ", "a", "n", " ", "i", "n", "v", "a", "l", "i", "d", " ", "o", "u", "t", "e", "r", " ", "c", "i", "p", "h", "e", "r", " ", "I", "D", ":", " ">> \o FmtLowerHexDebugVec(cid)

Display_DatabaseIntegrityError(d) ==
    <<"D", "a", "t", "a", "b", "a", "s", "e", " ", "i", "n", "t", "e", "g", "r", "i", "t", "y", " ", "e", "r", "r", "o", "r", ":", " ">> \o
    CASE d.tag = "Compression" -> <<"(", "D", "e", ")", "c", "o", "m", "p", "r", "e", "s", "s", "i", "o", "n", " ", "e", "r", "r", "o", "r">>
      [] d.tag = "Crypto" -> Msg_Crypto(d.e)
      [] d.tag = "HeaderHashMismatch" -> <<"H", "a", "s", "h", " ", "m", "i", "s", "m", "a", "t", "c", "h", " ", "w", "h", "e", "n", " ", "v", "e", "r", "i", "f", "y", "i", "n", "g", " ", "h", "e", "a", "d", "e", "r">>
      [] d.tag = "BlockHashMismatch" -> Msg_BlockHashMismatch(d.block_index)
      [] d.tag = "InvalidKDBXIdentifier" -> <<"I", "n", "v", "a", "l", "i", "d", " ", "K", "D", "B", "X", " ", "I", "d", "e", "n", "t", "i", "f", "i", "e", "r">>
      [] d.tag = "InvalidKDBXVersion" ->
           Msg_InvalidKDBXVersion(d.version, d.file_major_version, d.file_minor_version)
      [] d.tag = "InvalidOuterHeaderEntry" ->
           <<"E", "n", "c", "o", "u", "n", "t", "e", "r", "e", "d", " ", "a", "n", " ", "i", "n", "v", "a", "l", "i", "d", " ", "o", "u", "t", "e", "r", " ", "h", "e", "a", "d", "e", "r", " ", "e", "n", "t", "r", "y", " ", "w", "i", "t", "h", " ", "t", "y", "p", "e", " ">>
           \o FmtDisplayInt(d.entry_type)
      [] d.tag = "InvalidInnerHeaderEntry" ->
           <<"E", "n", "c", "o", "u", "n", "t", "e", "r", "e", "d", " ", "a", "n", " ", "i", "n", "v", "a", "l", "i", "d", " ", "i", "n", "n", "e", "r", " ", "h", "e", "a", "d", "e", "r", " ", "e", "n", "t", "r", "y", " ", "w", "i", "t", "h", " ", "t", "y", "p", "e", " ">>
           \o FmtDisplayInt(d.entry_type)
      [] d.tag = "IncompleteOuterHeader" ->
           <<"M", "i", "s", "s", "i", "n", "g", " ", "f", "i", "e", "l", "d", " ", "i", "n", " ", "o", "u", "t", "e", "r", " ", "h", "e", "a", "d", "e", "r", ":", " ">> \o d.missing_field
      [] d.tag = "IncompleteInnerHeader" ->
           <<"M", "i", "s", "s", "i", "n", "g", " ", "f", "i", "e", "l", "d", " ", "i", "n", " ", "i", "n", "n", "e", "r", " ", "h", "e", "a", "d", "e", "r", ":", " ">> \o d.missing_field
      [] d.tag = "MissingKDFParams" -> <<"M", "i", "s", "s", "i", "n", "g", " ", "f", "i", "e", "l", "d", " ", "i", "n", " ", "K", "D", "F", " ", "p", "a", "r", "a", "m", "e", "t", "e", "r", "s", ":", " ">> \o d.key
      [] d.tag = "MistypedKDFParam" ->
           <<"K", "D", "F", " ", "p", "a", "r", "a", "m", "e", "t", "e", "r", " ">> \o d.key \o <<" ", "h", "a", "s", " ", "w", "r", "o", "n", "g", " ", "t", "y", "p", "e">>
      [] d.tag = "InvalidKDFVersion" ->
           <<"E", "n", "c", "o", "u", "n", "t", "e", "r", "e", "d", " ", "a", "n", " ", "i", "n", "v", "a", "l", "i", "d", " ", "K", "D", "F", " ", "v", "e", "r", "s", "i", "o", "n", ":", " ">> \o FmtDisplayInt(d.version)
      [] d.tag = "InvalidKDFUUID" ->
           <<"E", "n", "c", "o", "u", "n", "t", "e", "r", "e", "d", " ", "a", "n", " ", "i", "n", "v", "a", "l", "i", "d", " ", "K", "D", "F", " ", "U", "U", "I", "D", ":", " ">> \o FmtLowerHexDebugVec(d.uuid)
      [] d.tag = "InvalidOuterCipherID" -> Msg_InvalidOuterCipherID(d.cid)
      [] d.tag = "InvalidInnerCipherID" ->
           <<"E", "n", "c", "o", "u", "n", "t", "e", "r", "e", "d", " ", "a", "n", " ", "i", "n", "v", "a", "l", "i", "d", " ", "i", "n", "n", "e", "r", " ", "c", "i", "p", "h", "e", "r", " ", "I", "D", ":", " ">> \o FmtDisplayInt(d.cid)
      [] d.tag = "InvalidCompressionSuite" ->
           <<"E", "n", "c", "o", "u", "n", "t", "e", "r", "e", "d", " ", "a", "n", " ", "i", "n", "v", "a", "l", "i", "d", " ", "c", "o", "m", "p", "r", "e", "s", "s", "i", "o", "n", " ", "s", "u", "i", "t", "e", " ", "I", "D", ":", " ">> \o FmtDisplayInt(d.cid)
      [] d.tag = "InvalidVariantDictionaryVersion" ->
           <<"E", "n", "c", "o", "u", "n", "t", "e", "r", "e", "d", " ", "a", " ", "V", "a", "r", "i", "a", "n", "t", "D", "i", "c", "t", "i", "o", "n", "a", "r", "y", " ", "w", "i", "t", "h", " ", "a", "n", " ", "i", "n", "v", "a", "l", "i", "d", " ", "v", "e", "r", "s", "i", "o", "n", ":", " ">>
           \o FmtDisplayInt(d.version)
      [] d.tag = "InvalidVariantDictionaryValueType" ->
           <<"E", "n", "c", "o", "u", "n", "t", "e", "r", "e", "d", " ", "a", "n", " ", "i", "n", "v", "a", "l", "i", "d", " ", "V", "a", "r", "i", "a", "n", "t", "D", "i", "c", "t", "i", "o", "n", "a", "r", "y", " ", "v", "a", "l", "u", "e", " ", "t", "y", "p", "e", ":", " ">>
           \o FmtDisplayInt(d.value_type)
      [] d.tag = "XMLParsing" ->
           <<"E", "n", "c", "o", "u", "n", "t", "e", "r", "e", "d", " ", "a", "n", " ", "e", "r", "r", "o", "r", " ", "w", "h", "e", "n", " ", "p", "a", "r", "s", "i", "n", "g", " ", "t", "h", "e", " ", "i", "n", "n", "e", "r", " ", "X", "M", "L", " ", "p", "a", "y", "l", "o", "a", "d", ":", " ">> \o d.e.disp
      [] d.tag = "UTF8" ->
           <<"E", "n", "c", "o", "u", "n", "t", "e", "r", "i", "n", "g", " ", "a", "n", " ", "e", "r", "r", "o", "r", " ", "w", "h", "e", "n", " ", "p", "a", "r", "s", "i", "n", "g", " ", "a", "n", " ", "U", "T", "F", "-", "8", " ", "f", "o", "r", "m", "a", "t", "t", "e", "d", " ", "s", "t", "r", "i", "n", "g", ":", " ">> \o d.e.disp
      [] d.tag = "Base64" ->
           <<"E", "n", "c", "o", "u", "n", "t", "e", "r", "e", "d", " ", "a", "n", " ", "e", "r", "r", "o", "r", " ", "w", "h", "e", "n", " ", "p", "a", "r", "s", "i", "n", "g", " ", "a", " ", "b", "a", "s", "e", "6", "4", "-", "e", "n", "c", "o", "d", "e", "d", " ", "s", "t", "r", "i", "n", "g", ":", " ">> \o d.e.disp

Display_Error(x) ==
    <<"K", "D", "B", "X", " ", "e", "r", "r", "o", "r", ":", " ">> \o
    CASE x.tag = "IO" -> <<"I", "O", " ", "e", "r", "r", "o", "r", ":", " ">> \o x.e.disp
      [] x.tag = "IncorrectKey" -> <<"I", "n", "c", "o", "r", "r", "e", "c", "t", " ", "k", "e", "y", " ", "s", "p", "e", "c", "i", "f", "i", "e", "d">>
      [] x.tag = "InvalidKeyFile" -> <<"K", "e", "y", "f", "i", "l", "e", " ", "f", "o", "r", "m", "a", "t", " ", "i", "n", "v", "a", "l", "i", "d">>
      [] x.tag = "DatabaseIntegrity" -> Display_DatabaseIntegrityError(x.e)

\* format!("{}", v): the Display impl of v's type
Display(v) ==
    CASE v.tier = "ext" -> v.disp
      [] v.tier = "CryptoError" -> Display_CryptoError(v)
      [] v.tier = "DatabaseIntegrityError" -> Display_DatabaseIntegrityError(v)
      [] v.tier = "Error" -> Display_Error(v)

(***************************************************************************)
(* impl std::error::Error: source()                                        *)
(***************************************************************************)
None == <<>>

Some(v) == <<v>>

\* variant: every cause passed through, the two TODO arms included
source_CryptoError_passall(c) == Some(c.e)

source_CryptoError(c) ==
    CASE c.tag = "Argon2" -> Some(c.e)
      [] c.tag = "InvalidKeyIvLength" -> Some(c.e)
      [] c.tag = "InvalidKeyNonceLength" -> None
      [] c.tag = "InvalidKeyLength" -> None
      [] c.tag = "BlockMode" -> Some(c.e)

\* variant: the Crypto arm left out, so that it falls to the wildcard arm
source_DatabaseIntegrityError_nocrypto(d) ==
    CASE d.tag = "XMLParsing" -> Some(d.e)
      [] d.tag = "Base64" -> Some(d.e)
      [] d.tag = "UTF8" -> Some(d.e)
      [] OTHER -> None

source_DatabaseIntegrityError(d) ==
    CASE d.tag = "Crypto" -> Some(d.e)
      [] d.tag = "XMLParsing" -> Some(d.e)
      [] d.tag = "Base64" -> Some(d.e)
      [] d.tag = "UTF8" -> Some(d.e)
      [] OTHER -> None

\* variant: the wrapped DatabaseIntegrityError itself returned as the cause
source_Error_wrapped(x) ==
    CASE x.tag = "IO" -> Some(x.e)
      [] x.tag = "DatabaseIntegrity" -> Some(x.e)
      [] OTHER -> None

source_Error(x) ==
    CASE x.tag = "IO" -> Some(x.e)
      [] x.tag = "DatabaseIntegrity" -> source_DatabaseIntegrityError(x.e)
      [] OTHER -> None

\* v.source() for a value of one of the three tiers of this file
source(v) ==
    CASE v.tier = "CryptoError" -> source_CryptoError(v)
      [] v.tier = "DatabaseIntegrityError" -> source_DatabaseIntegrityError(v)
      [] v.tier = "Error" -> source_Error(v)

(***************************************************************************)
(* impl From                                                               *)
(***************************************************************************)
From_DatabaseIntegrityError(e) == [tier |-> "Error", tag |-> "DatabaseIntegrity", e |-> e]

From_CryptoError(e) == [tier |-> "DatabaseIntegrityError", tag |-> "Crypto", e |-> e]

From_io_Error(e) == [tier |-> "Error", tag |-> "IO", e |-> e]

From_argon2_Error(e) == [tier |-> "CryptoError", tag |-> "Argon2", e |-> e]

From_InvalidKeyLength(e) == [tier |-> "CryptoError", tag |-> "InvalidKeyLength", e |-> e]

\* variant: the key/nonce-length failure filed under the key-length variant
From_InvalidKeyNonceLength_aslength(e) ==
    [tier |-> "CryptoError", tag |-> "InvalidKeyLength", e |-> e]

From_InvalidKeyNonceLength(e) ==
    [tier |-> "CryptoError", tag |-> "InvalidKeyNonceLength", e |-> e]

From_InvalidKeyIvLength(e) == [tier |-> "CryptoError", tag |-> "InvalidKeyIvLength", e |-> e]

From_BlockModeError(e) == [tier |-> "CryptoError", tag |-> "BlockMode", e |-> e]

From_xml_Error(e) == [tier |-> "DatabaseIntegrityError", tag |-> "XMLParsing", e |-> e]

From_Utf8Error(e) == [tier |-> "DatabaseIntegrityError", tag |-> "UTF8", e |-> e]

From_DecodeError(e) == [tier |-> "DatabaseIntegrityError", tag |-> "Base64", e |-> e]

(***************************************************************************)
(* The state: a value, the value it was converted from (if any), its       *)
(* rendering once Display has run, and the causes reached so far by        *)
(* repeated source() calls starting at the value.                          *)
(***************************************************************************)
Init ==
    /\ value \in Values
    /\ prev = None
    /\ shown = FALSE
    /\ text = <<>>
    /\ chain = <<value>>
    /\ ended = FALSE

\* the state after value.into() has produced w: the rendering and the walk start afresh
Converted(w) ==
    /\ value' = w
    /\ prev' = Some(value)
    /\ shown' = FALSE
    /\ text' = <<>>
    /\ chain' = <<w>>
    /\ ended' = FALSE

IntoErrorFromDatabaseIntegrityError ==
    /\ value \in DatabaseIntegrityErrors
    /\ Converted(From_DatabaseIntegrityError(value))

IntoDatabaseIntegrityErrorFromCryptoError ==
    /\ value \in CryptoErrors
    /\ Converted(From_CryptoError(value))

IntoErrorFromIo ==
    /\ value \in IoErrors
    /\ Converted(From_io_Error(value))

IntoCryptoErrorFromArgon2 ==
    /\ value \in Argon2Errors
    /\ Converted(From_argon2_Error(value))

IntoCryptoErrorFromInvalidKeyLength ==
    /\ value \in InvalidKeyLengths
    /\ Converted(From_InvalidKeyLength(value))

IntoCryptoErrorFromInvalidKeyNonceLength ==
    /\ value \in InvalidKeyNonceLengths
    /\ Converted(From_InvalidKeyNonceLength(value))

IntoCryptoErrorFromInvalidKeyIvLength ==
    /\ value \in InvalidKeyIvLengths
    /\ Converted(From_InvalidKeyIvLength(value))

IntoCryptoErrorFromBlockModeError ==
    /\ value \in BlockModeErrors
    /\ Converted(From_BlockModeError(value))

IntoDatabaseIntegrityErrorFromXml ==
    /\ value \in XmlErrors
    /\ Converted(From_xml_Error(value))

IntoDatabaseIntegrityErrorFromUtf8 ==
    /\ value \in Utf8Errors
    /\ Converted(From_Utf8Error(value))

IntoDatabaseIntegrityErrorFromBase64 ==
    /\ value \in Base64Errors
    /\ Converted(From_DecodeError(value))

\* format!("{}", value)
Fmt ==
    /\ ~shown
    /\ shown' = TRUE
    /\ text' = Display(value)
    /\ UNCHANGED <<value, prev, chain, ended>>

\* one more step of a handler walking the causes: the last cause reached is asked
\* for its source(); a cause of another crate's type is not asked by this file
Source ==
    /\ ~ended
    /\ chain[Len(chain)].tier # "ext"
    /\ LET r == source(chain[Len(chain)])
       IN  IF r = None
           THEN ended' = TRUE /\ chain' = chain
           ELSE ended' = FALSE /\ chain' = chain \o r
    /\ UNCHANGED <<value, prev, shown, text>>

Next ==
    \/ IntoErrorFromDatabaseIntegrityError
    \/ IntoDatabaseIntegrityErrorFromCryptoError
    \/ IntoErrorFromIo
    \/ IntoCryptoErrorFromArgon2
    \/ IntoCryptoErrorFromInvalidKeyLength
    \/ IntoCryptoErrorFromInvalidKeyNonceLength
    \/ IntoCryptoErrorFromInvalidKeyIvLength
    \/ IntoCryptoErrorFromBlockModeError
    \/ IntoDatabaseIntegrityErrorFromXml
    \/ IntoDatabaseIntegrityErrorFromUtf8
    \/ IntoDatabaseIntegrityErrorFromBase64
    \/ Fmt
    \/ Source

Spec == Init /\ [][Next]_vars

(***************************************************************************)
(* What the properties below read off a rendering.  A numeral is parsed    *)
(* back to its value, so that "the decimal form of n" and "in hexadecimal  *)
(* form" are stated without the formatting operators above.                *)
(***************************************************************************)
Contains(t, s) == \E i \in 0 .. (Len(t) - Len(s)) : SubSeq(t, i + 1, i + Len(s)) = s

DecimalDigits == {"0", "1", "2", "3", "4", "5", "6", "7", "8", "9"}

HexDigits == DecimalDigits \cup {"a", "b", "c", "d", "e", "f"}

DigitValue(ch) ==
    CASE ch = "0" -> 0 [] ch = "1" -> 1 [] ch = "2" -> 2 [] ch = "3" -> 3
      [] ch = "4" -> 4 [] ch = "5" -> 5 [] ch = "6" -> 6 [] ch = "7" -> 7
      [] ch = "8" -> 8 [] ch = "9" -> 9 [] ch = "a" -> 10 [] ch = "b" -> 11
      [] ch = "c" -> 12 [] ch = "d" -> 13 [] ch = "e" -> 14 [] ch = "f" -> 15

RECURSIVE NumeralValue(_, _)
NumeralValue(s, r) ==
    IF Len(s) = 0 THEN 0
    ELSE NumeralValue(SubSeq(s, 1, Len(s) - 1), r) * r + DigitValue(s[Len(s)])

\* s is the numeral of n in radix r (10 or 16): digits only, no leading zero
IsNumeralOf(s, n, r) ==
    /\ Len(s) >= 1
    /\ \A k \in 1 .. Len(s) : s[k] \in (IF r = 10 THEN DecimalDigits ELSE HexDigits)
    /\ (Len(s) > 1 => s[1] # "0")
    /\ NumeralValue(s, r) = n

\* the numeral of n in radix r occurs in t
ContainsNumeral(t, n, r) ==
    \E i \in 1 .. Len(t) : \E j \in i .. Len(t) : IsNumeralOf(SubSeq(t, i, j), n, r)

\* the items of a list body "a, b, c"
RECURSIVE ListItems(_)
ListItems(s) ==
    IF Len(s) = 0 THEN <<>>
    ELSE LET commas == {k \in 1 .. Len(s) : s[k] = ","}
         IN  IF commas = {} THEN <<s>>
             ELSE LET k == CHOOSE c \in commas : \A d \in commas : c <= d
                  IN  <<SubSeq(s, 1, k - 1)>> \o ListItems(SubSeq(s, k + 2, Len(s)))

\* t ends with a bracketed list whose items are the hexadecimal numerals of the
\* bytes of v, one per byte, in the order of v
EndsWithHexListOf(t, v) ==
    \E i \in 1 .. Len(t) :
        /\ t[i] = "["
        /\ t[Len(t)] = "]"
        /\ \A k \in 1 .. Len(t) : t[k] = "[" => k = i
        /\ LET items == ListItems(SubSeq(t, i + 1, Len(t) - 1))
           IN  /\ Len(items) = Len(v)
               /\ \A k \in 1 .. Len(v) : IsNumeralOf(items[k], v[k], 16)

\* the walk has asked chain[i] for its source()
Asked(i) == i \in 1 .. Len(chain) /\ (i < Len(chain) \/ ended)

\* the walk is over: the last source() returned None, or the last cause is a leaf
\* of another crate's type
WalkDone == ended \/ chain[Len(chain)].tier = "ext"

PassingCryptoTags == {"Argon2", "InvalidKeyIvLength", "BlockMode"}

WrappingIntegrityTags == {"Crypto", "XMLParsing", "Base64", "UTF8"}

BlockHashMismatch(n) ==
    [tier |-> "DatabaseIntegrityError", tag |-> "BlockHashMismatch", block_index |-> n]

(***************************************************************************)
(* C7: for every block index n, the rendering of BlockHashMismatch with    *)
(* block_index n, and of the Error it widens to, contains "block "         *)
(* immediately followed by the decimal numeral of n.                       *)
(***************************************************************************)
C7_BlockIndexRendered ==
    \A n \in Nums :
        (shown /\ value \in {BlockHashMismatch(n), From_DatabaseIntegrityError(BlockHashMismatch(n))})
        => \E i \in 1 .. Len(text) : \E j \in (i + 6) .. Len(text) :
              /\ SubSeq(text, i, i + 5) = <<"b", "l", "o", "c", "k", " ">>
              /\ IsNumeralOf(SubSeq(text, i + 6, j), n, 10)
              /\ (j < Len(text) => text[j + 1] \notin DecimalDigits)

C7_Witness ==
    /\ shown
    /\ prev = Some(BlockHashMismatch(3))
    /\ value = [tier |-> "Error", tag |-> "DatabaseIntegrity", e |-> BlockHashMismatch(3)]
    /\ Contains(text, <<"b", "l", "o", "c", "k", " ", "3">>)

(***************************************************************************)
(* C8: for every outer-cipher identifier cid (the 16-byte ones included),  *)
(* the rendering of InvalidOuterCipherID{cid} lists all bytes of cid, in   *)
(* their order, each as a hexadecimal numeral.                             *)
(***************************************************************************)
C8_CipherIdBytesInHex ==
    (shown /\ value.tier = "DatabaseIntegrityError" /\ value.tag = "InvalidOuterCipherID")
    => EndsWithHexListOf(text, value.cid)

C8_Witness ==
    /\ shown
    /\ value.tier = "DatabaseIntegrityError"
    /\ value.tag = "InvalidOuterCipherID"
    /\ Len(value.cid) = 16
    /\ value.cid[1] = 49 /\ value.cid[2] = 66 /\ value.cid[16] = 48
    /\ Contains(text, <<"[", "3", "1", ",", " ", "4", "2", ",", " ", "5", "3", ",", " ", "6", "4", ",", " ", "7", "5", ",", " ", "8", "6", ",", " ", "9", "7", ",", " ", "a", "8", ",", " ", "b", "9", ",", " ", "c", "a", ",", " ", "d", "b", ",", " ", "e", "c", ",", " ", "f", "d", ",", " ", "e", ",", " ", "1", "f", ",", " ", "3", "0", "]">>)

(***************************************************************************)
(* C5: every From conversion yields one fixed wrapping variant of the next *)
(* tier that holds the input unchanged: a CryptoError becomes              *)
(* DatabaseIntegrityError::Crypto, a DatabaseIntegrityError becomes        *)
(* Error::DatabaseIntegrity, an io error becomes Error::IO, and each       *)
(* primitive cause its own CryptoError variant; distinct inputs give       *)
(* distinct outputs, and no conversion yields IncorrectKey, InvalidKeyFile *)
(* or a DatabaseIntegrityError variant that wraps nothing.                 *)
(***************************************************************************)
\* the tier and variant a value of each convertible type widens to
WidenedTo(x) ==
    CASE x.tier = "DatabaseIntegrityError" -> <<"Error", "DatabaseIntegrity">>
      [] x.tier = "CryptoError" -> <<"DatabaseIntegrityError", "Crypto">>
      [] x.kind = "std::io::Error" -> <<"Error", "IO">>
      [] x.kind = "argon2::Error" -> <<"CryptoError", "Argon2">>
      [] x.kind = "hmac::crypto_mac::InvalidKeyLength" -> <<"CryptoError", "InvalidKeyLength">>
      [] x.kind = "block_modes::InvalidKeyIvLength" -> <<"CryptoError", "InvalidKeyIvLength">>
      [] x.kind = "stream_cipher::InvalidKeyNonceLength" ->
           <<"CryptoError", "InvalidKeyNonceLength">>
      [] x.kind = "block_modes::BlockModeError" -> <<"CryptoError", "BlockMode">>
      [] x.kind = "xml::reader::Error" -> <<"DatabaseIntegrityError", "XMLParsing">>
      [] x.kind = "std::str::Utf8Error" -> <<"DatabaseIntegrityError", "UTF8">>
      [] x.kind = "base64::DecodeError" -> <<"DatabaseIntegrityError", "Base64">>

\* some From conversion applies to the value
IntoAny ==
    \/ IntoErrorFromDatabaseIntegrityError
    \/ IntoDatabaseIntegrityErrorFromCryptoError
    \/ IntoErrorFromIo
    \/ IntoCryptoErrorFromArgon2
    \/ IntoCryptoErrorFromInvalidKeyLength
    \/ IntoCryptoErrorFromInvalidKeyNonceLength
    \/ IntoCryptoErrorFromInvalidKeyIvLength
    \/ IntoCryptoErrorFromBlockModeError
    \/ IntoDatabaseIntegrityErrorFromXml
    \/ IntoDatabaseIntegrityErrorFromUtf8
    \/ IntoDatabaseIntegrityErrorFromBase64

\* y.into(): the From impl that takes y's type
Into(y) ==
    CASE y \in DatabaseIntegrityErrors -> From_DatabaseIntegrityError(y)
      [] y \in CryptoErrors -> From_CryptoError(y)
      [] y \in IoErrors -> From_io_Error(y)
      [] y \in Argon2Errors -> From_argon2_Error(y)
      [] y \in InvalidKeyLengths -> From_InvalidKeyLength(y)
      [] y \in InvalidKeyNonceLengths -> From_InvalidKeyNonceLength(y)
      [] y \in InvalidKeyIvLengths -> From_InvalidKeyIvLength(y)
      [] y \in BlockModeErrors -> From_BlockModeError(y)
      [] y \in XmlErrors -> From_xml_Error(y)
      [] y \in Utf8Errors -> From_Utf8Error(y)
      [] y \in Base64Errors -> From_DecodeError(y)

C5_WideningRetainsInput ==
    /\ prev # None =>
          /\ <<value.tier, value.tag>> = WidenedTo(prev[1])
          /\ DOMAIN value = {"tier", "tag", "e"}
          /\ value.e = prev[1]
          /\ value \in CryptoErrors \cup DatabaseIntegrityErrors \cup Errors
          /\ value.tag \notin {"IncorrectKey", "InvalidKeyFile"}
          /\ value.tier = "DatabaseIntegrityError" => value.tag \in WrappingIntegrityTags
    /\ value.tier # "Error" => ENABLED IntoAny
    /\ prev # None =>
          \A y \in Values \ Errors : y # prev[1] => Into(y) # value

C5_Witness ==
    /\ prev # None
    /\ prev[1].tier = "CryptoError"
    /\ prev[1].tag = "InvalidKeyNonceLength"
    /\ value = [tier |-> "DatabaseIntegrityError", tag |-> "Crypto", e |-> prev[1]]

(***************************************************************************)
(* C9: the rendering of every CryptoError contains the rendering of the    *)
(* cause it holds, and source() returns that cause for Argon2,             *)
(* InvalidKeyIvLength and BlockMode and None for InvalidKeyLength and      *)
(* InvalidKeyNonceLength.                                                  *)
(***************************************************************************)
C9_CryptoCauseShownAndExposed ==
    /\ (shown /\ value.tier = "CryptoError")
          => /\ value.e \in CryptoCauses
             /\ Contains(text, value.e.disp)
             /\ Len(text) > Len(value.e.disp)
    /\ \A i \in 1 .. Len(chain) :
          (chain[i].tier = "CryptoError" /\ Asked(i))
          => IF chain[i].tag \in PassingCryptoTags
             THEN i < Len(chain) /\ chain[i + 1] = chain[i].e
             ELSE /\ chain[i].tag \in {"InvalidKeyLength", "InvalidKeyNonceLength"}
                  /\ i = Len(chain)
                  /\ ended

C9_Witness ==
    /\ shown
    /\ value.tier = "CryptoError"
    /\ value.tag = "InvalidKeyIvLength"
    /\ Contains(text, <<"I", "n", "v", "a", "l", "i", "d", " ", "k", "e", "y", " ", "/", " ", "I", "V", " ", "l", "e", "n", "g", "t", "h", ":", " ", "I", "n", "v", "a", "l", "i", "d", "K", "e", "y", "I", "v", "L", "e", "n", "g", "t", "h">>)
    /\ chain = <<value, value.e>>

(***************************************************************************)
(* C10: the first source() of an Error is None exactly for IncorrectKey,   *)
(* InvalidKeyFile and DatabaseIntegrity{e} with e not one of Crypto,       *)
(* XMLParsing, Base64, UTF8; for DatabaseIntegrity{e} it is the cause e    *)
(* itself holds (e.source()); every step of the walk lands on a strictly   *)
(* lower tier, and a walk makes at most two steps inside the three tiers   *)
(* before it reaches a leaf of another crate or None.                      *)
(***************************************************************************)
TierRank(v) ==
    CASE v.tier = "Error" -> 3
      [] v.tier = "DatabaseIntegrityError" -> 2
      [] v.tier = "CryptoError" -> 1
      [] v.tier = "ext" -> 0

C10_ErrorSourceAndFiniteChain ==
    /\ (chain[1].tier = "Error" /\ Asked(1))
          => /\ (Len(chain) = 1)
                   <=> \/ chain[1].tag \in {"IncorrectKey", "InvalidKeyFile"}
                       \/ /\ chain[1].tag = "DatabaseIntegrity"
                          /\ chain[1].e.tag \notin WrappingIntegrityTags
             /\ (chain[1].tag = "DatabaseIntegrity" /\ Len(chain) > 1)
                   => chain[2] = chain[1].e.e
             /\ (chain[1].tag = "IO") => chain[2] = chain[1].e
    /\ \A i \in 1 .. (Len(chain) - 1) : TierRank(chain[i + 1]) < TierRank(chain[i])
    /\ chain[1].tier = "Error" =>
          /\ Len(chain) <= 3
          /\ Cardinality({i \in 1 .. Len(chain) : Asked(i)}) <= 2
          /\ Cardinality({i \in 1 .. Len(chain) : Asked(i)}) = 2 => WalkDone

C10_Witness ==
    /\ chain[1].tier = "Error"
    /\ chain[1].tag = "DatabaseIntegrity"
    /\ chain[1].e.tag = "Crypto"
    /\ chain[1].e.e.tag = "BlockMode"
    /\ chain = <<value, value.e.e, value.e.e.e>>
    /\ WalkDone

(***************************************************************************)
(* C1 as claimed: source() of a value that wraps a cause returns exactly   *)
(* the wrapped value (for Error::DatabaseIntegrity{e: d} it is d, for      *)
(* Error::IO{e: i} it is i), and a value that wraps nothing returns None.  *)
(* Stated for the values of the tiers Error and DatabaseIntegrityError;    *)
(* the CryptoError arms are the matter of C9.                              *)
(***************************************************************************)
C1_SourceIsWrappedValue ==
    \A i \in 1 .. Len(chain) :
        (chain[i].tier \in {"Error", "DatabaseIntegrityError"} /\ Asked(i))
        => IF "e" \in DOMAIN chain[i]
           THEN i < Len(chain) /\ chain[i + 1] = chain[i].e
           ELSE i = Len(chain)

(***************************************************************************)
(* C2 as claimed: for every CryptoError c, of all five variants, the walk  *)
(* from Error::DatabaseIntegrity{Crypto{c}} passes exactly two causes and  *)
(* then stands on a leaf.                                                  *)
(***************************************************************************)
StartsAtWrappedCrypto ==
    /\ chain[1].tier = "Error"
    /\ chain[1].tag = "DatabaseIntegrity"
    /\ chain[1].e.tag = "Crypto"

C2_TwoCausesForEveryVariant ==
    (StartsAtWrappedCrypto /\ WalkDone)
    => /\ Len(chain) = 3
       /\ chain[3].tier = "ext"

(***************************************************************************)
(* C2 as amended: the walk from Error::DatabaseIntegrity{Crypto{c}} first  *)
(* reaches c.  For c an Argon2, InvalidKeyIvLength or BlockMode it then    *)
(* reaches the cause c holds, a leaf of another crate: exactly two causes. *)
(* For c an InvalidKeyLength or InvalidKeyNonceLength, c.source() is None: *)
(* exactly one cause.                                                      *)
(***************************************************************************)
C2_TwoCausesWhereCausePassed ==
    StartsAtWrappedCrypto
    => /\ Len(chain) >= 2 => chain[2] = chain[1].e.e
       /\ Asked(1) => Len(chain) >= 2
       /\ WalkDone =>
             IF chain[1].e.e.tag \in PassingCryptoTags
             THEN chain = <<chain[1], chain[1].e.e, chain[1].e.e.e>> /\ ~ended
             ELSE chain = <<chain[1], chain[1].e.e>> /\ ended

C2_Witness ==
    /\ StartsAtWrappedCrypto
    /\ chain[1].e.e.tag = "Argon2"
    /\ Len(chain) = 3
    /\ chain[2] = chain[1].e.e
    /\ chain[3] \in Argon2Errors
    /\ WalkDone

(***************************************************************************)
(* C3 as claimed: for every subordinate failure x with a From conversion,  *)
(* the rendering of the converted value is non-empty and contains x's own  *)
(* Display rendering.                                                      *)
(***************************************************************************)
C3_LiftedRenderingContainsDisplay ==
    (prev # None /\ shown)
    => /\ Len(text) > 0
       /\ Contains(text, Display(prev[1]))

(***************************************************************************)
(* C4 as claimed: every context field of a DatabaseIntegrityError appears  *)
(* in its rendering as given: integers (the version of InvalidKDBXVersion  *)
(* included) as decimal numerals, names as they are, identifier bytes as   *)
(* the list of their hexadecimal numerals.                                 *)
(***************************************************************************)
IntegerFields ==
    {"block_index", "version", "file_major_version", "file_minor_version", "entry_type",
     "value_type"}

\* field f of d is rendered in t; the integers in HexFields in radix 16, the others in 10
FieldRendered(t, d, f, HexFields) ==
    CASE f \in {"missing_field", "key"} -> Contains(t, d[f])
      [] f = "uuid" -> EndsWithHexListOf(t, d[f])
      [] f = "cid" /\ d.tag = "InvalidOuterCipherID" -> EndsWithHexListOf(t, d[f])
      [] f = "cid" /\ d.tag # "InvalidOuterCipherID" -> ContainsNumeral(t, d[f], 10)
      [] f \in IntegerFields -> ContainsNumeral(t, d[f], IF <<d.tag, f>> \in HexFields THEN 16 ELSE 10)

ContextFields(d) == DOMAIN d \ {"tier", "tag", "e"}

C4_FieldsVerbatimDecimal ==
    (shown /\ value.tier = "DatabaseIntegrityError")
    => \A f \in ContextFields(value) : FieldRendered(text, value, f, {})

(***************************************************************************)
(* C4 as amended: every context field of a DatabaseIntegrityError appears  *)
(* in its rendering: integers as decimal numerals, except the version of   *)
(* InvalidKDBXVersion, which appears as a lower-case hexadecimal numeral   *)
(* without prefix (its decimal form only when it is below 10); names as    *)
(* they are; identifier bytes as the list of their hexadecimal numerals.   *)
(* The rendering of InvalidKDBXVersion reads "version: <hex> file version  *)
(* <major>.<minor>".                                                       *)
(***************************************************************************)
C4_FieldsRendered ==
    (shown /\ value.tier = "DatabaseIntegrityError")
    => /\ \A f \in ContextFields(value) :
             FieldRendered(text, value, f, {<<"InvalidKDBXVersion", "version">>})
       /\ value.tag = "InvalidKDBXVersion" =>
             \E i \in 10 .. Len(text) : \E j \in i .. (Len(text) - 18) :
             \E k \in (j + 15) .. (Len(text) - 3) :
                /\ SubSeq(text, i - 9, i - 1) = <<"v", "e", "r", "s", "i", "o", "n", ":", " ">>
                /\ IsNumeralOf(SubSeq(text, i, j), value.version, 16)
                /\ SubSeq(text, j + 1, j + 14) = <<" ", "f", "i", "l", "e", " ", "v", "e", "r", "s", "i", "o", "n", " ">>
                /\ IsNumeralOf(SubSeq(text, j + 15, k), value.file_major_version, 10)
                /\ text[k + 1] = "."
                /\ IsNumeralOf(SubSeq(text, k + 2, Len(text) - 1), value.file_minor_version, 10)
                /\ text[Len(text)] = ")"

C4_Witness ==
    /\ shown
    /\ value = [tier |-> "DatabaseIntegrityError", tag |-> "InvalidKDBXVersion", version |-> 17,
                file_major_version |-> 3, file_minor_version |-> 1]
    /\ Contains(text, <<"(", "v", "e", "r", "s", "i", "o", "n", ":", " ", "1", "1", " ", "f", "i", "l", "e", " ", "v", "e", "r", "s", "i", "o", "n", " ", "3", ".", "1", ")">>)

====
